---- MODULE Spec2Model ----
(***************************************************************************)
(* Model of the local fallback engine of AdvancedLLMAgent                  *)
(* (src/gomokuagent/agent_v2.py): the five-in-a-row probe, the position    *)
(* scorer and the win > block > center > heuristic cascade, together with  *)
(* the get_move wrapper that decides when the cascade runs.                *)
(***************************************************************************)
EXTENDS Integers, Sequences, FiniteSets, TLC

\* ------------------------------------------------------------------ bounds

\* Stones the framework adds, by alternating play, to the starting position.
MaxStones == 1

\* ------------------------------------------------------- program constants

\* "You play on an 8x8 board where 5-in-a-row wins."
BoardSize == 8
WinLength == 5

None == "None"
PlayerX == "X"
PlayerO == "O"
Players == {PlayerX, PlayerO}
Cells == {None, PlayerX, PlayerO}

Rows == 0 .. (BoardSize - 1)
Cols == 0 .. (BoardSize - 1)
Moves == Rows \X Cols

NoMove == <<-1, -1>>

\* directions = [(0,1), (1,0), (1,1), (1,-1)]
directions == << <<0, 1>>, <<1, 0>>, <<1, 1>>, <<1, -1>> >>

\* center_moves = [(3, 3), (3, 4), (4, 3), (4, 4)]
center_moves == << <<3, 3>>, <<3, 4>>, <<4, 3>>, <<4, 4>> >>

VARIABLES
    board,           \* game_state.board: board[row][col]
    current_player,  \* game_state.current_player
    stones,          \* stones added to the starting position
    pc,              \* "idle", or the operation that has just returned
    board0,          \* the board as it was when the last operation was entered
    args,            \* the inputs of the last operation
    ret,             \* the move (or boolean) the last operation returned
    raised,          \* the exception that left the last operation, or "none"
    fallback_ran,    \* whether the last operation ran _get_strategic_move
    llm_calls        \* calls of llm_client.complete the last operation made

vars == <<board, current_player, stones, pc, board0, args, ret, raised,
          fallback_ran, llm_calls>>

\* ------------------------------------------------------------- positions

Opponent(player) == IF player = PlayerX THEN PlayerO ELSE PlayerX

EmptyBoard == [r \in Rows |-> [c \in Cols |-> None]]

BoardOf(xs, os) ==
    [r \in Rows |-> [c \in Cols |->
        IF <<r, c>> \in xs THEN PlayerX
        ELSE IF <<r, c>> \in os THEN PlayerO ELSE None]]

\* A full board on which nobody has five in a row (a drawn game).
DrawBoard ==
    [r \in Rows |-> [c \in Cols |->
        IF ((c \div 2) + r) % 2 = 0 THEN PlayerX ELSE PlayerO]]

Corners == {<<0, 0>>, <<0, 7>>, <<7, 0>>, <<7, 7>>}

\* The drawn position a few moves before its end.
LateBoard(holes) ==
    [r \in Rows |-> [c \in Cols |->
        IF <<r, c>> \in holes THEN None ELSE DrawBoard[r][c]]]

\* The positions a decision starts from.
StartBoards ==
    { EmptyBoard,
      \* horizontal four, both ends open
      BoardOf({<<3, 3>>, <<3, 4>>, <<3, 5>>, <<3, 6>>}, {}),
      \* vertical split four on the edge, and an opposing horizontal four
      BoardOf({<<0, 7>>, <<1, 7>>, <<3, 7>>, <<4, 7>>},
              {<<6, 1>>, <<6, 2>>, <<6, 3>>, <<6, 4>>}),
      \* diagonal split four through a center cell
      BoardOf({<<5, 0>>}, {<<0, 0>>, <<1, 1>>, <<2, 2>>, <<4, 4>>}),
      \* anti-diagonal four, and an opposing horizontal four on the edge
      BoardOf({<<2, 5>>, <<3, 4>>, <<4, 3>>, <<5, 2>>},
              {<<7, 2>>, <<7, 3>>, <<7, 4>>, <<7, 5>>}),
      \* the center taken, nothing else
      BoardOf({<<3, 3>>, <<4, 4>>}, {<<3, 4>>, <<4, 3>>}),
      LateBoard(Corners),
      LateBoard({<<0, 0>>, <<2, 5>>, <<3, 4>>, <<6, 5>>}),
      LateBoard({<<7, 7>>}),
      DrawBoard }

\* The cells the framework's further stones go to: the center, the ends
\* and gaps of the lines above, two corners.
PlayCells ==
    { <<3, 3>>, <<3, 4>>, <<4, 3>>, <<4, 4>>,
      <<3, 2>>, <<3, 7>>, <<2, 7>>, <<5, 7>>,
      <<6, 0>>, <<6, 5>>, <<1, 6>>, <<6, 1>>,
      <<7, 1>>, <<7, 6>>, <<0, 0>>, <<7, 7>> }

\* 0 <= r < len(board) and 0 <= c < len(board[0])
InBounds(r, c) == 0 <= r /\ r < BoardSize /\ 0 <= c /\ c < BoardSize

\* ------------------------------------------------- _creates_five_in_row

\* One of the two while loops: the cells equal to player met from (r, c)
\* on, stepping by (dr, dc), until the edge or another cell value.
RECURSIVE CountRun(_, _, _, _, _, _)
CountRun(b, r, c, dr, dc, player) ==
    IF InBounds(r, c) /\ b[r][c] = player
    THEN 1 + CountRun(b, r + dr, c + dc, dr, dc, player)
    ELSE 0

\* Only the positive sense of the axis is walked.
LineCountForwardOnly(b, row, col, d, player) ==
    1 + CountRun(b, row + d[1], col + d[2], d[1], d[2], player)

\* count for one direction: the placed piece, the positive sense, the
\* negative sense.
LineCount(b, row, col, d, player) ==
    1 + CountRun(b, row + d[1], col + d[2], d[1], d[2], player)
      + CountRun(b, row - d[1], col - d[2], -d[1], -d[2], player)

\* board[row][col] = value
SetCell(b, row, col, value) == [b EXCEPT ![row][col] = value]

\* The simulated stone is left on the board when the probe answers True.
CreatesFiveNoUndoOnWin(b, move, player) ==
    LET row == move[1]
        col == move[2]
    IN  IF b[row][col] # None
        THEN [ret |-> FALSE, raised |-> "none", board |-> b]
        ELSE LET b1 == SetCell(b, row, col, player)
             IN  IF \E i \in 1 .. Len(directions) :
                        LineCount(b1, row, col, directions[i], player) >= WinLength
                 THEN [ret |-> TRUE, raised |-> "none", board |-> b1]
                 ELSE [ret |-> FALSE, raised |-> "none",
                       board |-> SetCell(b1, row, col, None)]

\* The cell is not looked at before the stone is put on it.
CreatesFiveNoGuard(b, move, player) ==
    LET row == move[1]
        col == move[2]
        b1 == SetCell(b, row, col, player)
    IN  IF \E i \in 1 .. Len(directions) :
               LineCount(b1, row, col, directions[i], player) >= WinLength
        THEN [ret |-> TRUE, raised |-> "none", board |-> SetCell(b1, row, col, None)]
        ELSE [ret |-> FALSE, raised |-> "none", board |-> SetCell(b1, row, col, None)]

\* _creates_five_in_row(board, move, player): what it returns, that it
\* raises nothing, and the board it leaves behind.
CreatesFiveInRow(b, move, player) ==
    LET row == move[1]
        col == move[2]
    IN  IF b[row][col] # None
        THEN [ret |-> FALSE, raised |-> "none", board |-> b]
        ELSE LET b1 == SetCell(b, row, col, player)
             IN  IF \E i \in 1 .. Len(directions) :
                        LineCount(b1, row, col, directions[i], player) >= WinLength
                 THEN [ret |-> TRUE, raised |-> "none",
                       board |-> SetCell(b1, row, col, None)]
                 ELSE [ret |-> FALSE, raised |-> "none",
                       board |-> SetCell(b1, row, col, None)]

\* ------------------------------------------------------- _evaluate_move

Abs(x) == IF x < 0 THEN -x ELSE x
Max(x, y) == IF x >= y THEN x ELSE y

\* abs(row - 3.5) + abs(col - 3.5): both terms are odd halves, so the sum
\* is the integer (|2 row - 7| + |2 col - 7|) / 2.
CenterDistance(row, col) == (Abs(2 * row - 7) + Abs(2 * col - 7)) \div 2

Offsets == {-1, 0, 1}

\* Only the 4 neighbours that share an edge with the cell are looked at.
OccupiedNeighboursOrthogonal(b, row, col) ==
    { o \in Offsets \X Offsets :
        /\ (o[1] = 0) # (o[2] = 0)
        /\ InBounds(row + o[1], col + o[2])
        /\ b[row + o[1]][col + o[2]] # None }

\* the 8 neighbours that are on the board and not None
OccupiedNeighbours(b, row, col) ==
    { o \in Offsets \X Offsets :
        /\ ~(o[1] = 0 /\ o[2] = 0)
        /\ InBounds(row + o[1], col + o[2])
        /\ b[row + o[1]][col + o[2]] # None }

\* _evaluate_move(board, move, player)
EvaluateMove(b, move, player) ==
    Max(0, 7 - CenterDistance(move[1], move[2]))
        + 2 * Cardinality(OccupiedNeighbours(b, move[1], move[2]))

\* --------------------------------------------------- _get_strategic_move

\* for move in legal_moves: if self._creates_five_in_row(board, move, player):
\* return move.  The probes run in list order from index i on, each on the
\* board the one before it left.
RECURSIVE FirstFive(_, _, _, _)
FirstFive(b, legal_moves, i, player) ==
    IF i > Len(legal_moves)
    THEN [found |-> FALSE, move |-> NoMove, board |-> b]
    ELSE LET probe == CreatesFiveInRow(b, legal_moves[i], player)
         IN  IF probe.ret
             THEN [found |-> TRUE, move |-> legal_moves[i], board |-> probe.board]
             ELSE FirstFive(probe.board, legal_moves, i + 1, player)

InList(move, legal_moves) ==
    \E i \in 1 .. Len(legal_moves) : legal_moves[i] = move

\* The center cells are tried in the order of the legal-move list.
FirstCenterInListOrder(legal_moves) ==
    IF \E i \in 1 .. Len(legal_moves) : InList(legal_moves[i], center_moves)
    THEN LET i == CHOOSE k \in 1 .. Len(legal_moves) :
                    /\ InList(legal_moves[k], center_moves)
                    /\ \A j \in 1 .. (k - 1) : ~InList(legal_moves[j], center_moves)
         IN  legal_moves[i]
    ELSE NoMove

\* The first center cell is taken without asking whether it is legal.
FirstCenterUnchecked(legal_moves) == center_moves[1]

\* for move in center_moves: if move in legal_moves: return move
FirstCenter(legal_moves) ==
    IF \E i \in 1 .. Len(center_moves) : InList(center_moves[i], legal_moves)
    THEN LET i == CHOOSE k \in 1 .. Len(center_moves) :
                    /\ InList(center_moves[k], legal_moves)
                    /\ \A j \in 1 .. (k - 1) : ~InList(center_moves[j], legal_moves)
         IN  center_moves[i]
    ELSE NoMove

\* scored_moves: for move in legal_moves: scored_moves.append((score, move))
RECURSIVE ScoredMoves(_, _, _, _)
ScoredMoves(b, legal_moves, i, player) ==
    IF i > Len(legal_moves)
    THEN <<>>
    ELSE << <<EvaluateMove(b, legal_moves[i], player), legal_moves[i]>> >>
            \o ScoredMoves(b, legal_moves, i + 1, player)

\* Python's order on (score, (row, col)) tuples
TupleLess(s, t) ==
    \/ s[1] < t[1]
    \/ s[1] = t[1] /\ s[2][1] < t[2][1]
    \/ s[1] = t[1] /\ s[2][1] = t[2][1] /\ s[2][2] < t[2][2]

\* The first entry of the highest score, as a stable sort on the score
\* alone would leave it in front.
SortedFirstByScoreOnly(scored_moves) ==
    LET i == CHOOSE k \in 1 .. Len(scored_moves) :
                /\ \A j \in 1 .. Len(scored_moves) :
                        scored_moves[j][1] <= scored_moves[k][1]
                /\ \A j \in 1 .. (k - 1) :
                        scored_moves[j][1] < scored_moves[k][1]
    IN  scored_moves[i]

\* scored_moves.sort(reverse=True); scored_moves[0], for a non-empty list:
\* the moves are distinct, so the sort puts the one greatest tuple in front.
SortedFirst(scored_moves) ==
    LET i == CHOOSE k \in 1 .. Len(scored_moves) :
                \A j \in 1 .. Len(scored_moves) :
                    ~TupleLess(scored_moves[k], scored_moves[j])
    IN  scored_moves[i]

\* The opponent is taken to be the player to move.
OppPlayerSame(my_player) == my_player

\* opp_player = Player.O if my_player == Player.X else Player.X
OppPlayer(my_player) == IF my_player = PlayerX THEN PlayerO ELSE PlayerX

\* An empty list is answered with the first cell instead of an exception.
TacticalMoveDefault(b, legal_moves, player) ==
    IF Len(legal_moves) = 0
    THEN [ret |-> <<0, 0>>, raised |-> "none"]
    ELSE [ret |-> SortedFirst(ScoredMoves(b, legal_moves, 1, player))[2],
          raised |-> "none"]

\* Step 4: score, sort, take scored_moves[0][1]; indexing the empty list
\* raises IndexError.
TacticalMove(b, legal_moves, player) ==
    IF Len(legal_moves) = 0
    THEN [ret |-> NoMove, raised |-> "IndexError"]
    ELSE [ret |-> SortedFirst(ScoredMoves(b, legal_moves, 1, player))[2],
          raised |-> "none"]

\* Steps 3 and 4, on the board the probes left.
CenterOrTactical(b, legal_moves, my_player) ==
    IF FirstCenter(legal_moves) # NoMove
    THEN [ret |-> FirstCenter(legal_moves), raised |-> "none", step |-> "center",
          board |-> b]
    ELSE [ret |-> TacticalMove(b, legal_moves, my_player).ret,
          raised |-> TacticalMove(b, legal_moves, my_player).raised,
          step |-> "heuristic", board |-> b]

\* Step 2 and what follows it; win is the outcome of step 1.
BlockOrLater(win, legal_moves, my_player) ==
    LET block == FirstFive(win.board, legal_moves, 1, OppPlayer(my_player))
    IN  IF block.found
        THEN [ret |-> block.move, raised |-> "none", step |-> "block",
              board |-> block.board]
        ELSE CenterOrTactical(block.board, legal_moves, my_player)

\* The center is taken before a win is looked for.
GetStrategicMoveCenterFirst(b, legal_moves, my_player) ==
    LET win == FirstFive(b, legal_moves, 1, my_player)
    IN  IF FirstCenter(legal_moves) # NoMove
        THEN [ret |-> FirstCenter(legal_moves), raised |-> "none",
              step |-> "center", board |-> b]
        ELSE IF win.found
        THEN [ret |-> win.move, raised |-> "none", step |-> "win",
              board |-> win.board]
        ELSE BlockOrLater(win, legal_moves, my_player)

\* _get_strategic_move, given what game_state holds: the move returned or
\* the exception raised, the cascade step that ended it, and the board left.
GetStrategicMove(b, legal_moves, my_player) ==
    LET win == FirstFive(b, legal_moves, 1, my_player)
    IN  IF win.found
        THEN [ret |-> win.move, raised |-> "none", step |-> "win",
              board |-> win.board]
        ELSE BlockOrLater(win, legal_moves, my_player)

\* ---------------------------------------------------- the game framework

Orders == {"row_major", "col_major"}

\* Every cell of the board, in the framework's enumeration order.
AllMoves(order) ==
    [k \in 1 .. (BoardSize * BoardSize) |->
        IF order = "row_major"
        THEN <<(k - 1) \div BoardSize, (k - 1) % BoardSize>>
        ELSE <<(k - 1) % BoardSize, (k - 1) \div BoardSize>>]

\* game_state.get_legal_moves(): the empty cells
GetLegalMoves(b, order) ==
    LET IsEmpty(m) == b[m[1]][m[2]] = None
    IN  SelectSeq(AllMoves(order), IsEmpty)

\* game_state.is_valid_move(row, col)
IsValidMove(b, row, col) == InBounds(row, col) /\ b[row][col] = None

\* ---------------------------------------------------------------- get_move

\* What self.llm_client.complete(messages) does: it raises, or it returns a
\* text.  A text is told apart by what the parsing code can see in it:
\*   no_object  no brace-delimited group for re.search to match
\*   bad_json   a group that json.loads rejects
\*   no_row, no_col   a JSON object without that key
\*   pair       a JSON object with "row" and "col"
LlmCoords == {-1, 0, 3, 8}

Responses ==
    [kind : {"no_object", "bad_json", "no_row", "no_col"}, row : {0}, col : {0}]
        \cup [kind : {"pair"}, row : LlmCoords, col : LlmCoords]

\* self.llm_client: None, or a client whose call raises or answers
Clients ==
    { [client |-> "none", response |-> [kind |-> "no_object", row |-> 0, col |-> 0]],
      [client |-> "raises", response |-> [kind |-> "no_object", row |-> 0, col |-> 0]] }
        \cup [client : {"answers"}, response : Responses]

\* The try block up to the return: "return" with the parsed pair, "raise"
\* when an exception reaches the except clause, "fall" when the block ends
\* without returning.
TryRemote(b, llm) ==
    IF llm.client = "raises" THEN [exit |-> "raise", move |-> NoMove]
    ELSE IF llm.response.kind = "no_object" THEN [exit |-> "fall", move |-> NoMove]
    ELSE IF llm.response.kind = "bad_json" THEN [exit |-> "raise", move |-> NoMove]
    ELSE IF llm.response.kind \in {"no_row", "no_col"}
    THEN [exit |-> "raise", move |-> NoMove]
    ELSE IF IsValidMove(b, llm.response.row, llm.response.col)
    THEN [exit |-> "return", move |-> <<llm.response.row, llm.response.col>>]
    ELSE [exit |-> "fall", move |-> NoMove]

\* The parsed pair is returned without asking is_valid_move.
GetMoveUnchecked(b, llm, fallback) ==
    IF llm.client = "none"
    THEN [ret |-> fallback.ret, raised |-> fallback.raised, board |-> fallback.board,
          fallback_ran |-> TRUE, llm_calls |-> 0]
    ELSE IF llm.client = "answers" /\ llm.response.kind = "pair"
    THEN [ret |-> <<llm.response.row, llm.response.col>>, raised |-> "none",
          board |-> b, fallback_ran |-> FALSE, llm_calls |-> 1]
    ELSE [ret |-> fallback.ret, raised |-> fallback.raised, board |-> fallback.board,
          fallback_ran |-> TRUE, llm_calls |-> 1]

\* get_move(game_state); fallback is what self._get_strategic_move(game_state)
\* does on this game state, should it be called.
GetMove(b, llm, fallback) ==
    IF llm.client = "none"
    THEN [ret |-> fallback.ret, raised |-> fallback.raised, board |-> fallback.board,
          fallback_ran |-> TRUE, llm_calls |-> 0]
    ELSE IF TryRemote(b, llm).exit = "return"
    THEN [ret |-> TryRemote(b, llm).move, raised |-> "none", board |-> b,
          fallback_ran |-> FALSE, llm_calls |-> 1]
    ELSE [ret |-> fallback.ret, raised |-> fallback.raised, board |-> fallback.board,
          fallback_ran |-> TRUE, llm_calls |-> 1]

\* ------------------------------------------ StudentLLMAgent (src/agent_v1.py)

\* _get_fallback_move: return random.choice(game_state.get_legal_moves()).
\* The module imports re, json, Agent, OpenAIGomokuClient and Player only,
\* so looking up the name random raises NameError before the list is read.
StudentFallbackMove(b) ==
    [ret |-> NoMove, raised |-> "NameError", board |-> b, fallback_ran |-> TRUE]

\* StudentLLMAgent.get_move.  The try block first calls
\* self._create_enhanced_board_representation, self._determine_game_phase and
\* self._format_recent_moves, none of which the class defines: helpers says
\* whether the inherited Agent supplies them; if not, AttributeError reaches
\* the except clause before the remote call is made.  There is no test of
\* self.llm_client: calling complete on None raises inside the try block.
StudentGetMove(b, helpers, llm) ==
    IF ~helpers \/ llm.client = "none"
    THEN StudentFallbackMove(b) @@ [llm_calls |-> 0]
    ELSE IF TryRemote(b, llm).exit = "return"
    THEN [ret |-> TryRemote(b, llm).move, raised |-> "none", board |-> b,
          fallback_ran |-> FALSE, llm_calls |-> 1]
    ELSE StudentFallbackMove(b) @@ [llm_calls |-> 1]

\* ------------------------------------------------------------ the actions

Init ==
    /\ board \in StartBoards
    /\ current_player \in Players
    /\ stones = 0
    /\ pc = "idle"
    /\ board0 = board
    /\ args = <<>>
    /\ ret = NoMove
    /\ raised = "none"
    /\ fallback_ran = FALSE
    /\ llm_calls = 0

\* The framework plays a stone for the player to move and passes the turn.
PlaceStone(row, col) ==
    /\ pc = "idle"
    /\ stones < MaxStones
    /\ <<row, col>> \in PlayCells
    /\ board[row][col] = None
    /\ board' = SetCell(board, row, col, current_player)
    /\ current_player' = Opponent(current_player)
    /\ stones' = stones + 1
    /\ board0' = board'
    /\ UNCHANGED <<pc, args, ret, raised, fallback_ran, llm_calls>>

\* A call of _creates_five_in_row on any cell of the board, for any player.
CallCreatesFiveInRow(move, player) ==
    /\ pc = "idle"
    /\ \E out \in {CreatesFiveInRow(board, move, player)} :
           /\ board' = out.board
           /\ ret' = out.ret
           /\ raised' = out.raised
    /\ board0' = board
    /\ args' = <<move, player>>
    /\ pc' = "creates_five_in_row"
    /\ UNCHANGED <<current_player, stones, fallback_ran, llm_calls>>

\* A call of _get_strategic_move on the current game state.
CallGetStrategicMove(order) ==
    /\ pc = "idle"
    /\ \E out \in {GetStrategicMove(board, GetLegalMoves(board, order),
                                     current_player)} :
           /\ board' = out.board
           /\ ret' = out.ret
           /\ raised' = out.raised
           /\ args' = <<order, out.step>>
    /\ board0' = board
    /\ fallback_ran' = TRUE
    /\ pc' = "get_strategic_move"
    /\ UNCHANGED <<current_player, stones, llm_calls>>

\* A call of get_move on the current game state, with the client the agent
\* was set up with and what the remote model does this time.
CallGetMove(order) ==
    /\ pc = "idle"
    /\ \E fallback \in {GetStrategicMove(board, GetLegalMoves(board, order),
                                          current_player)} :
         \E llm \in Clients : \E out \in {GetMove(board, llm, fallback)} :
           /\ board' = out.board
           /\ ret' = out.ret
           /\ raised' = out.raised
           /\ fallback_ran' = out.fallback_ran
           /\ llm_calls' = out.llm_calls
           /\ args' = <<order, IF out.fallback_ran THEN fallback.step ELSE "remote", llm>>
    /\ board0' = board
    /\ pc' = "get_move"
    /\ UNCHANGED <<current_player, stones>>

\* A call of StudentLLMAgent.get_move on the current game state.  Without
\* the helpers the client is never reached, so one client stands for all.
CallStudentGetMove(helpers) ==
    /\ pc = "idle"
    /\ \E llm \in IF helpers THEN Clients ELSE {c \in Clients : c.client = "raises"} :
        \E out \in {StudentGetMove(board, helpers, llm)} :
           /\ board' = out.board
           /\ ret' = out.ret
           /\ raised' = out.raised
           /\ fallback_ran' = out.fallback_ran
           /\ llm_calls' = out.llm_calls
           /\ args' = <<helpers, IF out.llm_calls = 0 THEN "not called" ELSE "called",
                        llm>>
    /\ board0' = board
    /\ pc' = "student_get_move"
    /\ UNCHANGED <<current_player, stones>>

\* A call of _evaluate_move on any cell of the board, for the player to move.
CallEvaluateMove(move) ==
    /\ pc = "idle"
    /\ ret' = EvaluateMove(board, move, current_player)
    /\ raised' = "none"
    /\ board0' = board
    /\ args' = <<move, current_player>>
    /\ pc' = "evaluate_move"
    /\ UNCHANGED <<board, current_player, stones, fallback_ran, llm_calls>>

Next ==
    \/ \E row \in Rows, col \in Cols : PlaceStone(row, col)
    \/ \E move \in Moves, player \in Players : CallCreatesFiveInRow(move, player)
    \/ \E order \in Orders : CallGetStrategicMove(order)
    \/ \E order \in Orders : CallGetMove(order)
    \/ \E helpers \in BOOLEAN : CallStudentGetMove(helpers)
    \/ \E move \in Moves : CallEvaluateMove(move)

Spec == Init /\ [][Next]_vars

\* ------------------------------------------------------------- properties

\* Placing player's stone on the empty cell move of b puts it in five
\* consecutive cells of one axis that all hold player: the cell is the
\* k-th of the five, the others are read from b.
MakesFive(b, move, player) ==
    \E i \in 1 .. Len(directions), k \in 0 .. (WinLength - 1) :
        \A j \in 0 .. (WinLength - 1) :
            LET r == move[1] + (j - k) * directions[i][1]
                c == move[2] + (j - k) * directions[i][2]
            IN  /\ InBounds(r, c)
                /\ (j = k \/ b[r][c] = player)

\* The legal moves of the last call of _get_strategic_move.
LegalMoves0 == GetLegalMoves(board0, args[1])

\* The legal moves on which player would complete five, in list order.
FiveMoves(player) ==
    LET Five(m) == MakesFive(board0, m, player)
    IN  SelectSeq(LegalMoves0, Five)

AfterProbe == pc = "creates_five_in_row"
AfterStrategic == pc = "get_strategic_move"
ProbedEmpty == AfterProbe /\ board0[args[1][1]][args[1][2]] = None

\* C1: on an empty cell, _creates_five_in_row answers True exactly when the
\* placed stone lies in a run of five or more of the player's stones along
\* one of the four axes.
C1_FiveIffRun ==
    ProbedEmpty => (ret = MakesFive(board0, args[1], args[2]))

\* A probe answered True for a stone that closes a gap: the run has stones
\* on both sides of it.
C1_Witness ==
    /\ ProbedEmpty
    /\ ret = TRUE
    /\ \E i \in 1 .. Len(directions) :
          /\ InBounds(args[1][1] + directions[i][1], args[1][2] + directions[i][2])
          /\ InBounds(args[1][1] - directions[i][1], args[1][2] - directions[i][2])
          /\ board0[args[1][1] + directions[i][1]][args[1][2] + directions[i][2]] = args[2]
          /\ board0[args[1][1] - directions[i][1]][args[1][2] - directions[i][2]] = args[2]

\* C2: _creates_five_in_row and _get_strategic_move leave every cell of the
\* board as they found it, whatever they return.
C2_BoardUnchanged ==
    (AfterProbe \/ AfterStrategic) => board = board0

\* A probe that answered True and left the cell empty again.
C2_Witness ==
    /\ ProbedEmpty
    /\ ret = TRUE
    /\ board[args[1][1]][args[1][2]] = None

\* C3: when some legal move completes five for the player to move,
\* _get_strategic_move returns the first such move of the list.
C3_WinFirst ==
    (AfterStrategic /\ Len(FiveMoves(current_player)) > 0)
        => (raised = "none" /\ ret = Head(FiveMoves(current_player)))

\* The win was taken although the opponent threatens five and a center
\* cell is free.
C3_Witness ==
    /\ AfterStrategic
    /\ args[2] = "win"
    /\ MakesFive(board0, ret, current_player)
    /\ Len(FiveMoves(Opponent(current_player))) > 0
    /\ \E i \in 1 .. Len(center_moves) : InList(center_moves[i], LegalMoves0)

\* C4: when no legal move completes five for the player to move and some
\* legal move completes five for the opponent, _get_strategic_move returns
\* the first such move of the list.
C4_BlockFirst ==
    (/\ AfterStrategic
     /\ Len(FiveMoves(current_player)) = 0
     /\ Len(FiveMoves(Opponent(current_player))) > 0)
        => (raised = "none" /\ ret = Head(FiveMoves(Opponent(current_player))))

\* The block was made although a center cell is free.
C4_Witness ==
    /\ AfterStrategic
    /\ args[2] = "block"
    /\ MakesFive(board0, ret, Opponent(current_player))
    /\ ~MakesFive(board0, ret, current_player)
    /\ \E i \in 1 .. Len(center_moves) : InList(center_moves[i], LegalMoves0)

\* C5: given a non-empty list of legal moves, _get_strategic_move returns a
\* move, and the move is in the list.
C5_ReturnsLegalMove ==
    (AfterStrategic /\ Len(LegalMoves0) > 0)
        => (raised = "none" /\ InList(ret, LegalMoves0))

\* The cascade ran to its last step and returned a legal move.
C5_Witness ==
    /\ AfterStrategic
    /\ args[2] = "heuristic"
    /\ InList(ret, LegalMoves0)

\* The last call of _get_strategic_move ran to step 4 and returned a move.
AfterHeuristic == AfterStrategic /\ args[2] = "heuristic" /\ raised = "none"

Score0(move) == EvaluateMove(board0, move, current_player)

\* The highest score of a legal move.
BestScore0 ==
    LET scores == { Score0(LegalMoves0[i]) : i \in 1 .. Len(LegalMoves0) }
    IN  CHOOSE v \in scores : \A w \in scores : w <= v

\* The legal moves of score v, in list order.
MovesOfScore(v) ==
    LET Scores(m) == Score0(m) = v
    IN  SelectSeq(LegalMoves0, Scores)

\* (row, col) pairs in lexicographic order
MoveLeq(m, n) == m[1] < n[1] \/ (m[1] = n[1] /\ m[2] <= n[2])

\* C6, as claimed: the heuristic step returns a legal move of the highest
\* score, and among several such the one that comes first in the list of
\* legal moves.
C6_FirstOfTied ==
    AfterHeuristic =>
        \E tied \in {MovesOfScore(BestScore0)} : ret = Head(tied)

\* C6, amended: the heuristic step returns a legal move of the highest
\* score, and among several such the one with the greatest (row, col),
\* whatever the order of the list.
C6_GreatestOfTied ==
    AfterHeuristic =>
        \E tied \in {MovesOfScore(BestScore0)} :
            /\ InList(ret, tied)
            /\ \A i \in 1 .. Len(tied) : MoveLeq(tied[i], ret)

\* The heuristic step chose among several moves of the highest score, and
\* not the one that is first in the list.
C6_Witness ==
    /\ AfterHeuristic
    /\ \E tied \in {MovesOfScore(BestScore0)} :
          /\ Len(tied) >= 2
          /\ ret # Head(tied)
          /\ InList(ret, tied)

ProbedOccupied == AfterProbe /\ board0[args[1][1]][args[1][2]] # None

\* C7, as claimed: _creates_five_in_row called on a cell that is not empty
\* raises an error.
C7_OccupiedRaises == ProbedOccupied => raised # "none"

\* C7, amended: _creates_five_in_row called on a cell that is not empty
\* returns False, raises nothing and leaves the board as it was.
C7_OccupiedReturnsFalse ==
    ProbedOccupied => (ret = FALSE /\ raised = "none" /\ board = board0)

\* A probe of an occupied cell, for the player whose stone is on it, next
\* to another stone of that player.
C7_Witness ==
    /\ ProbedOccupied
    /\ ret = FALSE
    /\ board0[args[1][1]][args[1][2]] = args[2]
    /\ \E i \in 1 .. Len(directions) :
          /\ InBounds(args[1][1] + directions[i][1], args[1][2] + directions[i][2])
          /\ board0[args[1][1] + directions[i][1]][args[1][2] + directions[i][2]] = args[2]

\* C8: given an empty list of legal moves, _get_strategic_move raises an
\* error, returns no cell, and leaves the board as it was.
C8_EmptyListRaises ==
    (AfterStrategic /\ Len(LegalMoves0) = 0)
        => (raised # "none" /\ ret = NoMove /\ board = board0)

\* _get_strategic_move was called on a full board and raised.
C8_Witness ==
    /\ AfterStrategic
    /\ \A r \in Rows, c \in Cols : board0[r][c] # None
    /\ raised = "IndexError"

\* The first of (3,3), (3,4), (4,3), (4,4), in that order, that is empty on b.
FirstFreeCenter(b) ==
    IF b[3][3] = None THEN <<3, 3>>
    ELSE IF b[3][4] = None THEN <<3, 4>>
    ELSE IF b[4][3] = None THEN <<4, 3>>
    ELSE IF b[4][4] = None THEN <<4, 4>>
    ELSE NoMove

\* C9: when no legal move completes five for either player and a center
\* cell is legal, _get_strategic_move returns the first legal one of
\* (3,3), (3,4), (4,3), (4,4), whatever the order of the list.
C9_CenterInListedOrder ==
    (/\ AfterStrategic
     /\ Len(FiveMoves(current_player)) = 0
     /\ Len(FiveMoves(Opponent(current_player))) = 0
     /\ FirstFreeCenter(board0) # NoMove)
        => (raised = "none" /\ ret = FirstFreeCenter(board0))

\* (3,4) was returned although (4,3) is legal and comes before it in the
\* list of legal moves.
C9_Witness ==
    /\ AfterStrategic
    /\ args[1] = "col_major"
    /\ args[2] = "center"
    /\ ret = <<3, 4>>
    /\ board0[4][3] = None

AfterGetMove == pc = "get_move"

\* The four conditions, read off the inputs of the last call of get_move.
NoClient == args[3].client = "none"
CallRaised == args[3].client = "raises"
NoParsablePair == args[3].client = "answers" /\ args[3].response.kind # "pair"
PairNotLegal ==
    /\ args[3].client = "answers"
    /\ args[3].response.kind = "pair"
    /\ ~(/\ args[3].response.row \in Rows
         /\ args[3].response.col \in Cols
         /\ board0[args[3].response.row][args[3].response.col] = None)

\* C10: get_move runs the fallback selector exactly when no client is
\* configured, the remote call raised, the response held no parsable
\* coordinate pair, or the pair is not a legal move; otherwise it returns
\* the parsed pair.
C10_FallbackConditions ==
    AfterGetMove =>
        /\ fallback_ran = (NoClient \/ CallRaised \/ NoParsablePair \/ PairNotLegal)
        /\ ~fallback_ran =>
              (/\ raised = "none"
               /\ ret = <<args[3].response.row, args[3].response.col>>)

\* get_move returned the remote model's pair, which the fallback selector
\* would not have chosen, without running the selector.
C10_Witness ==
    /\ AfterGetMove
    /\ ~fallback_ran
    /\ ret = <<args[3].response.row, args[3].response.col>>
    /\ ret # GetStrategicMove(board0, GetLegalMoves(board0, args[1]),
                               current_player).ret

AfterStudentGetMove == pc = "student_get_move"
AfterAnyGetMove == AfterGetMove \/ AfterStudentGetMove

BoardFull(b) == \A r \in Rows, c \in Cols : b[r][c] # None

\* The remote path of the last call of get_move failed: the call raised, or
\* its text held no coordinate pair the parsing code could read.
RemoteFailed ==
    \/ args[3].client = "raises"
    \/ args[3].client = "answers" /\ args[3].response.kind # "pair"

\* C11: one call of get_move makes at most one remote call; a failure of the
\* remote path does not leave get_move, which then returns the fallback
\* selector's move; the only error that leaves get_move is the one an empty
\* list of legal moves causes.
C11_RemoteFailureAbsorbed ==
    AfterAnyGetMove =>
        /\ llm_calls <= 1
        /\ raised # "none" => BoardFull(board0)
        /\ (RemoteFailed /\ ~BoardFull(board0)) =>
              (/\ fallback_ran
               /\ raised = "none"
               /\ IsValidMove(board0, ret[1], ret[2]))

\* C11 for AdvancedLLMAgent alone: at most one remote call, and after a
\* failed remote path the move _get_strategic_move chooses, or its
\* IndexError when the board is full.
C11_AdvancedAbsorbs ==
    AfterGetMove =>
        /\ llm_calls <= 1
        /\ raised # "none" => (BoardFull(board0) /\ raised = "IndexError")
        /\ RemoteFailed =>
              \E fallback \in {GetStrategicMove(board0, GetLegalMoves(board0, args[1]),
                                                 current_player)} :
                  fallback_ran /\ ret = fallback.ret /\ raised = fallback.raised

\* StudentLLMAgent.get_move made its one remote call, the call raised, and
\* NameError left get_move although legal moves remain.
C11_Witness ==
    /\ AfterStudentGetMove
    /\ llm_calls = 1
    /\ args[3].client = "raises"
    /\ raised = "NameError"
    /\ ~BoardFull(board0)

AfterEvaluate == pc = "evaluate_move"

\* The cells of the board next to move, diagonals included, that hold a
\* stone of either player.
StonesAround(b, move) ==
    { cell \in Rows \X Cols :
        /\ cell # move
        /\ Abs(cell[1] - move[1]) <= 1
        /\ Abs(cell[2] - move[2]) <= 1
        /\ b[cell[1]][cell[2]] \in Players }

\* Twice max(0, 7 - (|row - 3.5| + |col - 3.5|)).
TwiceCentrality(move) ==
    Max(0, 14 - (Abs(2 * move[1] - 7) + Abs(2 * move[2] - 7)))

\* C12: _evaluate_move returns max(0, 7 - (|row - 3.5| + |col - 3.5|)) plus
\* 2 for each of the 8 neighbours that is on the board and holds a stone of
\* either player; the first term is never negative and is 0 in the corners;
\* on the empty board (3,3) scores more than (0,0).
C12_ScoreFormula ==
    AfterEvaluate =>
        /\ 2 * ret = TwiceCentrality(args[1])
                        + 4 * Cardinality(StonesAround(board0, args[1]))
        /\ ret - 2 * Cardinality(StonesAround(board0, args[1])) >= 0
        /\ args[1] \in Corners =>
              ret = 2 * Cardinality(StonesAround(board0, args[1]))
        /\ (board0 = EmptyBoard /\ args[1] = <<3, 3>>) =>
              ret > EvaluateMove(board0, <<0, 0>>, args[2])

\* A corner was scored whose three neighbours hold stones of both players:
\* the score is the 6 of the neighbours alone.
C12_Witness ==
    /\ AfterEvaluate
    /\ args[1] \in Corners
    /\ \E c, d \in StonesAround(board0, args[1]) :
          board0[c[1]][c[2]] = PlayerX /\ board0[d[1]][d[2]] = PlayerO
    /\ ret = 6

====
